---- MODULE Spec2Model ----
(***************************************************************************)
(* Model of yahoo_oauth.py: the JSON file store (__read_file__,            *)
(* __write_file__, __del_file__), the OAuth2Session `oauth` with its       *)
(* auto-refresh and token_updater, and the four commands of main().        *)
(*                                                                         *)
(* main() runs one command per process, so every command starts with a     *)
(* freshly constructed session; what survives between commands is the two  *)
(* files and the clock.                                                    *)
(***************************************************************************)
EXTENDS Integers, Sequences, FiniteSets, TLC

VARIABLES tokenFile,   \* content of TOKEN_FILE
          infoFile,    \* content of INFO_FILE
          now,         \* time.time()
          issued,      \* number of access tokens the provider has issued
          last         \* record of the last command: inputs, responses, result

vars == <<tokenFile, infoFile, now, issued, last>>

(* ------------------------------ bounds --------------------------------- *)
MaxTime == 3
MaxIssued == 2

(* ------------------------------ values --------------------------------- *)
\* lifetime the provider grants, in clock ticks
ExpiresIn == 1

TokenType == "bearer"

Scope == "openid email profile"

EmptyMap == [k \in {} |-> 0]

\* dict.update(): keys of d overwrite, other keys of e stay
Update(e, d) ==
    [k \in (DOMAIN e) \cup (DOMAIN d) |-> IF k \in DOMAIN d THEN d[k] ELSE e[k]]

\* mappings over a set of keys K with values in V
Mappings(K, V) == UNION {[D -> V] : D \in SUBSET K}

(* ------------------------------ files ---------------------------------- *)
AbsentFile == [kind |-> "absent", data |-> EmptyMap]

\* a file that exists and does not hold JSON
CorruptFile == [kind |-> "corrupt", data |-> EmptyMap]

\* a file that exists and whose bytes are not UTF-8 text
UndecodableFile == [kind |-> "undecodable", data |-> EmptyMap]

\* a read that swallows every exception
ReadErrorNone(f) == ""

\* the exception that leaves __read_file__: FileNotFoundError and
\* json.JSONDecodeError are caught, the UnicodeDecodeError of f.read() is not
ReadError(f) == IF f.kind = "undecodable" THEN "UnicodeDecodeError" ELSE ""

\* a dump that leaves out the values that are mappings themselves
JsonDumpDropsNested(m) ==
    [kind |-> "json", data |-> [k \in {x \in DOMAIN m : m[x].leaf} |-> m[k]]]

\* json.dump(m, f)
JsonDump(m) == [kind |-> "json", data |-> m]

\* Python's None / a value
None == [none |-> TRUE, val |-> EmptyMap]

Some(m) == [none |-> FALSE, val |-> m]

\* json.load(f) inside the try of __read_file__
ReadFile(f) == IF f.kind = "json" THEN Some(f.data) ELSE None

\* `x or {}`
OrEmpty(x) == IF x.none \/ x.val = EmptyMap THEN EmptyMap ELSE x.val

\* a write in which the stored values win over the new ones
WriteFileKeepsOld(f, data) == JsonDump(Update(data, OrEmpty(ReadFile(f))))

\* a write that replaces the file instead of merging into it
WriteFileReplace(f, data) == JsonDump(data)

WriteFile(f, data) == JsonDump(Update(OrEmpty(ReadFile(f)), data))

DelFile(f) == AbsentFile

\* the exception os.remove raises
OsRemoveError(f) == IF f.kind = "absent" THEN "FileNotFoundError" ELSE ""

\* a delete without its except clause
DelErrorUncaught(f) == OsRemoveError(f)

\* the exception that leaves __del_file__: every OSError is passed over
DelError(f) == IF OsRemoveError(f) \in {"", "FileNotFoundError"} THEN "" ELSE OsRemoveError(f)

(* --------------------------- token records ----------------------------- *)
Has(m, k) == k \in DOMAIN m

\* m.get(k), with 0 standing for None
Get(m, k) == IF Has(m, k) THEN m[k] ELSE 0

\* m[k] = v
Put(m, k, v) == [x \in (DOMAIN m) \cup {k} |-> IF x = k THEN v ELSE m[x]]

\* a successful body of the token endpoint: the n-th access token, with the
\* optional fields the provider chose to return
TokenBody(n, hasRt, hasExp, hasScope) ==
    LET b0 == [access_token |-> n, token_type |-> TokenType]
        b1 == IF hasRt THEN Put(b0, "refresh_token", n) ELSE b0
        b2 == IF hasExp THEN Put(b1, "expires_in", ExpiresIn) ELSE b1
    IN  IF hasScope THEN Put(b2, "scope", Scope) ELSE b2

\* what the token endpoint may answer when n tokens were issued so far
TokenResponses(n) ==
    {[kind |-> k, body |-> EmptyMap] : k \in {"rejected", "neterr", "malformed"}}
    \cup
    (IF n < MaxIssued
       THEN {[kind |-> "ok", body |-> TokenBody(n + 1, r, e, s)] :
                 r \in BOOLEAN, e \in BOOLEAN, s \in BOOLEAN}
       ELSE {})

\* the token endpoint is not asked
NoResponse == [kind |-> "none", body |-> EmptyMap]

\* the provider cannot refresh without a refresh token (RFC 6749, section 6)
ProviderRefresh(rt, tr) ==
    IF tr.kind = "ok" /\ rt = 0 THEN [kind |-> "rejected", body |-> EmptyMap] ELSE tr

\* oauthlib parse_token_response: the body plus the derived expires_at
ParseTokenResponse(body, t) ==
    IF Has(body, "expires_in") THEN Put(body, "expires_at", t + body["expires_in"])
    ELSE body

(* ------------------------------ session -------------------------------- *)
\* OAuth2Session(...) as constructed at import: no token, no expiry
FreshSession == [token |-> EmptyMap, access_token |-> 0, expires_at |-> 0]

\* `oauth.token = tok`: the setter stores tok and populates the attributes
\* the token carries, leaving the others as they were
SetToken(s, tok, t) ==
    [token |-> tok,
     access_token |-> IF Has(tok, "access_token") THEN tok["access_token"]
                      ELSE s.access_token,
     expires_at |-> IF Has(tok, "expires_at") THEN tok["expires_at"]
                    ELSE IF Has(tok, "expires_in") THEN t + tok["expires_in"]
                    ELSE s.expires_at]

\* oauthlib add_token: "ok" or the error it raises
AddToken(s, t) ==
    IF s.access_token = 0 /\ Get(s.token, "access_token") = 0 THEN "ValueError"
    ELSE IF s.expires_at # 0 /\ s.expires_at < t THEN "TokenExpiredError"
    ELSE "ok"

Ev(e, tok) == [ev |-> e, tok |-> tok]

\* an error of the token endpoint that is swallowed instead of raised
TokenEndpointErrorSwallowed(kind) == ""

\* the exception fetch_token / refresh_token raise on a failed answer
TokenEndpointError(kind) ==
    CASE kind = "neterr" -> "ConnectionError"
      [] kind = "malformed" -> "MissingTokenError"
      [] OTHER -> "OAuth2Error"

\* a token_updater that replaces the token file
RefreshAccessTokenReplace(f, new_token) == JsonDump(new_token)

\* a token_updater that keeps the new token in memory only
RefreshAccessTokenSkip(f, new_token) == f

\* token_updater of the session
RefreshAccessToken(f, new_token) == WriteFile(f, new_token)

\* a failed refresh that discards the stored record
RefreshFailedInvalidates(f) == AbsentFile

\* the token file after a failed refresh: the error leaves the request before
\* token_updater is called and no handler touches the file
RefreshFailed(f) == f

\* oauth.request up to the point where the request itself is sent.
\* s: session, f: TOKEN_FILE, t: clock, tr: answer of the token endpoint.
\* err = "" when the request can be dispatched, carrying `bearer`.
SessionRequest(s, f, t, tr) ==
    LET first == AddToken(s, t)
        rt == Get(s.token, "refresh_token")
        pr == ProviderRefresh(rt, tr)
        parsed == ParseTokenResponse(pr.body, t)
        s1 == SetToken(s, parsed, t)
        new_token == IF Has(parsed, "refresh_token") THEN parsed
                     ELSE Put(parsed, "refresh_token", rt)
        second == AddToken(s1, t)
        base == [file |-> f, trace |-> <<>>, err |-> "", bearer |-> 0,
                 tokenResp |-> "none", body |-> EmptyMap]
    IN  IF s.token = EmptyMap
          THEN base
        ELSE IF first = "ok"
          THEN [base EXCEPT !.bearer = s.access_token]
        ELSE IF first # "TokenExpiredError"
          THEN [base EXCEPT !.err = first]
        ELSE IF pr.kind # "ok"
          THEN [base EXCEPT !.file = RefreshFailed(f),
                            !.trace = <<Ev("refresh", rt)>>,
                            !.tokenResp = pr.kind,
                            !.err = TokenEndpointError(pr.kind)]
        ELSE [file |-> RefreshAccessToken(f, new_token),
              trace |-> <<Ev("refresh", rt), Ev("write_token", new_token["access_token"])>>,
              err |-> IF second = "ok" THEN "" ELSE second,
              bearer |-> IF second = "ok" THEN s1.access_token ELSE 0,
              tokenResp |-> "ok",
              body |-> pr.body]

(* ------------------------------ provider ------------------------------- *)
\* claims the user-info endpoint may return: any of them may be missing
Claims ==
    {c \in Mappings({"sub", "email"}, {"123", "456", "x@y.com"}) :
        /\ Has(c, "sub") => c["sub"] \in {"123", "456"}
        /\ Has(c, "email") => c["email"] = "x@y.com"}

\* the user-info endpoint is not asked
NoAnswer == [kind |-> "none", claims |-> EmptyMap]

\* what the user-info endpoint may answer
UserinfoResponses ==
    {[kind |-> k, claims |-> EmptyMap] : k \in {"non200", "neterr", "200bad"}}
    \cup {[kind |-> "200", claims |-> c] : c \in Claims}

\* what the revocation endpoint may answer
RevokeResponses == {"200", "non200", "neterr"}

(* ------------------------------ commands ------------------------------- *)
\* the record of a command, before its outcome is filled in
Call(op) ==
    [op |-> op, outcome |-> "returned", err |-> "", ret |-> EmptyMap,
     retBool |-> FALSE, preToken |-> tokenFile, preInfo |-> infoFile,
     at |-> now, stale |-> FALSE, trace |-> <<>>, tokenResp |-> "none",
     body |-> EmptyMap, apiResp |-> "none", claims |-> EmptyMap,
     wasFailed |-> last.failed, failed |-> last.failed]

\* history: whether a refresh has failed since the last successful exchange
FailedAfter(op, resp, before) ==
    IF op = "exchange_code" /\ resp = "ok" THEN FALSE
    ELSE IF op = "get_userinfo" /\ resp \in {"rejected", "neterr", "malformed"} THEN TRUE
    ELSE before

Raised(c, e) == [c EXCEPT !.outcome = "raised", !.err = e]

Issue(resp) == IF resp = "ok" THEN issued + 1 ELSE issued

\* get_authorization_url(): builds a URL, touches neither file
GetAuthorizationUrl ==
    /\ last' = Call("authorization_url")
    /\ UNCHANGED <<tokenFile, infoFile, now, issued>>

\* exchange_authorization_code(code): the outcome of fetch_token for the given
\* code is the provider's choice tr
\* an exchange that returns the token and does not persist it
FetchTokenNoWrite(f, t, tr) ==
    LET token == ParseTokenResponse(tr.body, t)
    IN  IF tr.kind = "ok"
          THEN [file |-> f, err |-> "", ret |-> token,
                trace |-> <<Ev("fetch_token", 0)>>]
          ELSE [file |-> f, ret |-> EmptyMap, trace |-> <<Ev("fetch_token", 0)>>,
                err |-> TokenEndpointError(tr.kind)]

FetchToken(f, t, tr) ==
    LET token == ParseTokenResponse(tr.body, t)
    IN  IF tr.kind = "ok"
          THEN [file |-> WriteFile(f, token), err |-> "", ret |-> token,
                trace |-> <<Ev("fetch_token", 0), Ev("write_token", token["access_token"])>>]
          ELSE [file |-> f, ret |-> EmptyMap, trace |-> <<Ev("fetch_token", 0)>>,
                err |-> TokenEndpointError(tr.kind)]

ExchangeAuthorizationCode ==
    \E tr \in TokenResponses(issued) :
        LET r == FetchToken(tokenFile, now, tr)
            c == [Call("exchange_code") EXCEPT !.trace = r.trace,
                      !.tokenResp = tr.kind, !.body = tr.body, !.ret = r.ret,
                      !.failed = FailedAfter("exchange_code", tr.kind, last.failed)]
        IN  /\ tokenFile' = r.file
            /\ issued' = Issue(tr.kind)
            /\ last' = IF r.err = "" THEN c ELSE Raised(c, r.err)
            /\ UNCHANGED <<infoFile, now>>

\* the info file written whatever the status
InfoAfterAlways(info, ar) == WriteFile(info, ar.claims)

\* the info file never written
InfoAfterNever(info, ar) == info

\* INFO_FILE after the answer ar: written on status 200 only
InfoAfter(info, ar) == IF ar.kind = "200" THEN WriteFile(info, ar.claims) ELSE info

\* get_userinfo() after the token was loaded and the session has passed
\* add_token: rq is the result of SessionRequest, ar the endpoint's answer
UserinfoResult(rq, info, ar) ==
    LET sent == Append(rq.trace, Ev("userinfo", rq.bearer))
    IN  IF rq.err # ""
          THEN [info |-> info, trace |-> rq.trace, err |-> rq.err,
                ret |-> EmptyMap, apiResp |-> "none", claims |-> EmptyMap]
          ELSE [info |-> InfoAfter(info, ar),
                trace |-> IF ar.kind = "200" THEN Append(sent, Ev("write_info", 0))
                          ELSE sent,
                ret |-> ar.claims, apiResp |-> ar.kind, claims |-> ar.claims,
                err |-> CASE ar.kind = "neterr" -> "ConnectionError"
                          [] ar.kind = "200bad" -> "JSONDecodeError"
                          [] OTHER -> ""]

\* the token endpoint answers only when the loaded token makes the session
\* refresh, the user-info endpoint only when the request is dispatched
TokenAnswers(rd, t, n) ==
    IF ~rd.none /\ AddToken(SetToken(FreshSession, rd.val, t), t) = "TokenExpiredError"
      THEN TokenResponses(n) ELSE {NoResponse}

UserinfoAnswers(rd, f, t, tr) ==
    IF ~rd.none /\ SessionRequest(SetToken(FreshSession, rd.val, t), f, t, tr).err = ""
      THEN UserinfoResponses ELSE {NoAnswer}

\* a get_userinfo() that treats a missing token as an empty one
GetUserinfoCallUnchecked(f, info, t, tr, ar) ==
    LET rd == ReadFile(f)
        s == SetToken(FreshSession, rd.val, t)
        rq == SessionRequest(s, f, t, tr)
        r == UserinfoResult(rq, info, ar)
    IN  [file |-> rq.file, info |-> r.info, err |-> r.err, trace |-> r.trace,
         ret |-> r.ret, stale |-> (AddToken(s, t) = "TokenExpiredError"),
         tokenResp |-> rq.tokenResp, body |-> rq.body,
         apiResp |-> r.apiResp, claims |-> r.claims]

\* get_userinfo() as a whole. f: TOKEN_FILE, info: INFO_FILE, t: clock,
\* tr, ar: the answers of the token and the user-info endpoint
GetUserinfoCall(f, info, t, tr, ar) ==
    LET rd == ReadFile(f)
        s == SetToken(FreshSession, rd.val, t)
        rq == SessionRequest(s, f, t, tr)
        r == UserinfoResult(rq, info, ar)
    IN  IF rd.none
          THEN \* `oauth.token = None`: the setter raises
               [file |-> f, info |-> info, err |-> "TypeError", trace |-> <<>>,
                ret |-> EmptyMap, stale |-> FALSE, tokenResp |-> "none",
                body |-> EmptyMap, apiResp |-> "none", claims |-> EmptyMap]
          ELSE [file |-> rq.file, info |-> r.info, err |-> r.err, trace |-> r.trace,
                ret |-> r.ret, stale |-> (AddToken(s, t) = "TokenExpiredError"),
                tokenResp |-> rq.tokenResp, body |-> rq.body,
                apiResp |-> r.apiResp, claims |-> r.claims]

GetUserinfo ==
    \E tr \in TokenAnswers(ReadFile(tokenFile), now, issued) :
      \E ar \in UserinfoAnswers(ReadFile(tokenFile), tokenFile, now, tr) :
        LET r == GetUserinfoCall(tokenFile, infoFile, now, tr, ar)
            c == [Call("get_userinfo") EXCEPT !.trace = r.trace, !.stale = r.stale,
                      !.tokenResp = r.tokenResp, !.body = r.body,
                      !.apiResp = r.apiResp, !.claims = r.claims, !.ret = r.ret,
                      !.failed = FailedAfter("get_userinfo", r.tokenResp, last.failed)]
        IN  /\ tokenFile' = r.file
            /\ infoFile' = r.info
            /\ issued' = Issue(r.tokenResp)
            /\ last' = IF r.err = "" THEN c ELSE Raised(c, r.err)
            /\ UNCHANGED now

\* revoke_grant(): the session holds no token, so the request is sent without
\* a bearer token and without a refresh
\* a revocation that deletes the token file whatever the status
RevokeResultAlwaysDelete(f, rt, status) ==
    [file |-> DelFile(f), retBool |-> (status = "200"),
     trace |-> <<Ev("revoke", rt), Ev("del_token", 0)>>,
     err |-> IF status = "neterr" THEN "ConnectionError" ELSE ""]

RevokeResult(f, rt, status) ==
    IF status = "200"
      THEN [file |-> DelFile(f), retBool |-> TRUE, err |-> "",
            trace |-> <<Ev("revoke", rt), Ev("del_token", 0)>>]
      ELSE [file |-> f, retBool |-> FALSE, trace |-> <<Ev("revoke", rt)>>,
            err |-> IF status = "neterr" THEN "ConnectionError" ELSE ""]

\* the revocation endpoint answers only when the request is built
RevokeAnswers(rd) ==
    IF ~rd.none /\ Has(rd.val, "refresh_token") THEN RevokeResponses ELSE {"none"}

\* a revoke_grant() that builds its request whatever the token file holds
RevokeArgsErrorNone(token) == ""

\* the exception of `token["refresh_token"]` while the request is built
RevokeArgsError(token) ==
    IF token.none THEN "TypeError"
    ELSE IF ~Has(token.val, "refresh_token") THEN "KeyError"
    ELSE ""

RevokeGrant ==
    \E status \in RevokeAnswers(ReadFile(tokenFile)) :
        LET token == ReadFile(tokenFile)
            rq == SessionRequest(FreshSession, tokenFile, now, NoResponse)
            r == RevokeResult(rq.file, Get(token.val, "refresh_token"), status)
            c == [Call("revoke_grant") EXCEPT !.trace = rq.trace \o r.trace,
                      !.tokenResp = rq.tokenResp, !.body = rq.body,
                      !.apiResp = status, !.retBool = r.retBool]
        IN  IF RevokeArgsError(token) # ""
              THEN /\ last' = Raised(Call("revoke_grant"), RevokeArgsError(token))
                   /\ UNCHANGED <<tokenFile, infoFile, now, issued>>
            ELSE /\ tokenFile' = r.file
                 /\ issued' = Issue(rq.tokenResp)
                 /\ last' = IF r.err = "" THEN c ELSE Raised(c, r.err)
                 /\ UNCHANGED <<infoFile, now>>

\* time passes between commands
Tick ==
    /\ now < MaxTime
    /\ now' = now + 1
    /\ UNCHANGED <<tokenFile, infoFile, issued, last>>

Init ==
    /\ tokenFile \in {AbsentFile, CorruptFile}
    /\ infoFile \in {AbsentFile, CorruptFile}
    /\ now = 1
    /\ issued = 0
    /\ last = [op |-> "none", outcome |-> "returned", err |-> "", ret |-> EmptyMap,
               retBool |-> FALSE, preToken |-> AbsentFile, preInfo |-> AbsentFile,
               at |-> 0, stale |-> FALSE, trace |-> <<>>, tokenResp |-> "none",
               body |-> EmptyMap, apiResp |-> "none", claims |-> EmptyMap,
               wasFailed |-> FALSE, failed |-> FALSE]

Next ==
    \/ GetAuthorizationUrl
    \/ ExchangeAuthorizationCode
    \/ GetUserinfo
    \/ RevokeGrant
    \/ Tick

Spec == Init /\ [][Next]_vars

(* ------------------------- the store on its own ------------------------ *)
\* JSON values: a scalar, or a mapping of scalars
Leaf(a) == [leaf |-> TRUE, atom |-> a, sub |-> EmptyMap]

Nest(m) == [leaf |-> FALSE, atom |-> 0, sub |-> m]

StoreValues == {Leaf(1), Nest([x \in {"x"} |-> 1]), Nest([x \in {"y"} |-> 2])}

StoreMappings == Mappings({"a", "b"}, StoreValues)

StoreFiles ==
    {AbsentFile, CorruptFile, UndecodableFile} \cup {JsonDump(m) : m \in StoreMappings}

StoreNames == {"token", "info"}

\* the mappings written to a resource: all of them to one, two to the other
StoreData(name) ==
    IF name = "token" THEN StoreMappings
    ELSE {m \in StoreMappings : \A k \in DOMAIN m : k = "a" /\ m[k] = Leaf(1)}

File(name) == IF name = "token" THEN tokenFile ELSE infoFile

SetFile(name, f) ==
    /\ tokenFile' = IF name = "token" THEN f ELSE tokenFile
    /\ infoFile' = IF name = "info" THEN f ELSE infoFile

\* the call before the last one
NoCall == [op |-> "none", name |-> "token", data |-> EmptyMap, pre |-> AbsentFile]

StoreCall(op, name, data) ==
    [op |-> op, name |-> name, data |-> data, pre |-> File(name), result |-> None,
     err |-> "",
     prev |-> [op |-> last.op, name |-> last.name, data |-> last.data,
               pre |-> last.pre]]

\* __write_file__(data, file_name): the read in line 49 may raise
StoreWrite ==
    \E name \in StoreNames : \E data \in StoreData(name) :
        IF ReadError(File(name)) # ""
          THEN /\ last' = [StoreCall("write", name, data) EXCEPT
                              !.err = ReadError(File(name))]
               /\ UNCHANGED <<tokenFile, infoFile, now, issued>>
          ELSE /\ SetFile(name, WriteFile(File(name), data))
               /\ last' = StoreCall("write", name, data)
               /\ UNCHANGED <<now, issued>>

\* __read_file__(file_name)
StoreRead ==
    \E name \in StoreNames :
        /\ last' = [StoreCall("read", name, EmptyMap) EXCEPT
                       !.result = IF ReadError(File(name)) # "" THEN None
                                  ELSE ReadFile(File(name)),
                       !.err = ReadError(File(name))]
        /\ UNCHANGED <<tokenFile, infoFile, now, issued>>

\* __del_file__(file_name)
StoreDelete ==
    \E name \in StoreNames :
        /\ SetFile(name, DelFile(File(name)))
        /\ last' = [StoreCall("delete", name, EmptyMap) EXCEPT
                       !.err = DelError(File(name))]
        /\ UNCHANGED <<now, issued>>

StoreInit ==
    /\ tokenFile \in StoreFiles
    /\ infoFile \in {AbsentFile, CorruptFile}
    /\ now = 1
    /\ issued = 0
    /\ last = [op |-> "none", name |-> "token", data |-> EmptyMap,
               pre |-> AbsentFile, result |-> None, err |-> "", prev |-> NoCall]

StoreNext ==
    \/ StoreWrite
    \/ StoreRead
    \/ StoreDelete

StoreSpec == StoreInit /\ [][StoreNext]_vars

(* ---------------------- two concurrent writers ------------------------ *)
\* two processes, each running one __write_file__ call
Procs == {"p", "q"}

ConcData == Mappings({"a", "b"}, {Leaf(1)})

ConcFiles == {AbsentFile, UndecodableFile, JsonDump([k \in {"a"} |-> Leaf(2)])}

\* a process before its call
Idle ==
    [pc |-> "start", name |-> "token", data |-> EmptyMap, existing_data |-> EmptyMap]

Step(p, ev) == [p |-> p, ev |-> ev]

\* a mapping that re-reads the file at the time it is opened for writing
ExistingReread(cur, copy) == OrEmpty(ReadFile(cur))

\* the mapping that is updated and dumped is the copy made by the read in
\* line 49, whatever the file holds by the time it is opened
Existing(cur, copy) == copy

\* the other process wrote its bytes to the resource while p held it open
Overwritten(p) ==
    \E i, j \in 1..Len(last.order) :
        /\ last.order[i] = Step(p, "open")
        /\ i < j
        /\ last.order[j].ev = "dump"
        /\ last.order[j].p # p
        /\ last.procs[last.order[j].p].name = last.procs[p].name

\* what the resource holds after p has written its bytes from offset 0 and
\* closed: its mapping, or, when the other process wrote in between, its
\* bytes followed by what is left of the longer bytes of the other
Dumped(p) ==
    {JsonDump(last.procs[p].existing_data)}
    \cup (IF Overwritten(p) THEN {CorruptFile} ELSE {})

\* line 49: __read_file__(file_name) or {}; an undecodable file raises
ConcRead(p) ==
    /\ last.procs[p].pc = "start"
    /\ \E name \in StoreNames : \E data \in ConcData :
          last' = [last EXCEPT
              !.procs[p] =
                  IF ReadError(File(name)) # ""
                    THEN [pc |-> "raised", name |-> name, data |-> data,
                          existing_data |-> EmptyMap]
                    ELSE [pc |-> "read", name |-> name, data |-> data,
                          existing_data |-> OrEmpty(ReadFile(File(name)))],
              !.order = Append(@, Step(p, "read"))]
    /\ UNCHANGED <<tokenFile, infoFile, now, issued>>

\* lines 50 and 52: existing_data.update(data), then open(file_name, "w")
\* truncates the file
ConcOpen(p) ==
    /\ last.procs[p].pc = "read"
    /\ last' = [last EXCEPT
           !.procs[p].pc = "opened",
           !.procs[p].existing_data =
               Update(Existing(File(last.procs[p].name), @), last.procs[p].data),
           !.order = Append(@, Step(p, "open"))]
    /\ SetFile(last.procs[p].name, CorruptFile)
    /\ UNCHANGED <<now, issued>>

\* line 53 and the end of the with block: json.dump, flush and close
ConcDump(p) ==
    /\ last.procs[p].pc = "opened"
    /\ \E f \in Dumped(p) : SetFile(last.procs[p].name, f)
    /\ last' = [last EXCEPT !.procs[p].pc = "done",
                            !.order = Append(@, Step(p, "dump"))]
    /\ UNCHANGED <<now, issued>>

ConcInit ==
    /\ tokenFile \in ConcFiles
    /\ infoFile = AbsentFile
    /\ now = 1
    /\ issued = 0
    /\ last = [procs |-> [p \in Procs |-> Idle], order |-> <<>>,
               initial |-> [name \in StoreNames |->
                               IF name = "token" THEN tokenFile ELSE infoFile]]

ConcNext ==
    \E p \in Procs :
        \/ ConcRead(p)
        \/ ConcOpen(p)
        \/ ConcDump(p)

ConcSpec == ConcInit /\ [][ConcNext]_vars

(* ------------------------------- claims -------------------------------- *)
\* the mapping a file holds, an absent or unparsable file holding none
Stored(f) == IF f.kind = "json" THEN f.data ELSE EmptyMap

\* C1: after write(name, D) over a stored mapping E (an absent resource
\* counting as the empty mapping) the stored mapping has exactly the keys of
\* E and of D, every key of D has D's value and every other key of E keeps
\* E's value.
C1_WriteMerges ==
    (last.op = "write" /\ last.pre.kind \in {"json", "absent", "corrupt"}) =>
        LET E == Stored(last.pre)
            D == last.data
            S == File(last.name)
        IN  /\ S.kind = "json"
            /\ DOMAIN S.data = (DOMAIN E) \cup (DOMAIN D)
            /\ \A k \in DOMAIN D : S.data[k] = D[k]
            /\ \A k \in (DOMAIN E) \ (DOMAIN D) : S.data[k] = E[k]

\* a write that overwrote one key of the stored mapping and kept another
C1_Witness ==
    /\ last.op = "write"
    /\ last.pre.kind = "json"
    /\ \E k \in DOMAIN last.pre.data : k \notin DOMAIN last.data
    /\ \E k \in DOMAIN last.pre.data :
          k \in DOMAIN last.data /\ last.data[k] # last.pre.data[k]

\* number of events e in a trace
Count(tr, e) == Cardinality({i \in DOMAIN tr : tr[i].ev = e})

Refreshed == last.op = "get_userinfo" /\ last.tokenResp = "ok"

\* C2: when the stored token has expired and the provider answers the
\* refresh with a new token, get_userinfo makes exactly one refresh call,
\* before the user-info request, and the user-info request is then sent
\* carrying the new access token, not the expired one.
C2_RefreshThenProceed ==
    (last.op = "get_userinfo" /\ last.stale /\ last.tokenResp = "ok") =>
        /\ Count(last.trace, "refresh") = 1
        /\ \E i, j \in DOMAIN last.trace :
              /\ i < j
              /\ last.trace[i].ev = "refresh"
              /\ last.trace[j].ev = "userinfo"
              /\ last.trace[j].tok = last.body["access_token"]
              /\ last.trace[j].tok # Get(Stored(last.preToken), "access_token")

\* C3: a successful refresh writes the token store exactly once, and the
\* write is a merge: every field the refresh response returned has the new
\* value, expires_at is derived anew from a returned expires_in, and every
\* other field of the previously stored token is still there with its old
\* value.
C3_RefreshWritesOnceMerged ==
    Refreshed =>
        LET E == Stored(last.preToken)
            B == last.body
        IN  /\ Count(last.trace, "write_token") = 1
            /\ tokenFile.kind = "json"
            /\ \A k \in DOMAIN B : Has(tokenFile.data, k) /\ tokenFile.data[k] = B[k]
            /\ Has(B, "expires_in") =>
                  Get(tokenFile.data, "expires_at") = last.at + B["expires_in"]
            /\ \A k \in (DOMAIN E) \ (DOMAIN B) :
                  /\ Has(tokenFile.data, k)
                  /\ (k # "expires_at" \/ ~Has(B, "expires_in")) =>
                        tokenFile.data[k] = E[k]

\* a refresh whose response returned neither refresh_token nor scope, over a
\* stored token that had both
C3_Witness ==
    /\ Refreshed
    /\ ~Has(last.body, "refresh_token") /\ ~Has(last.body, "scope")
    /\ Has(Stored(last.preToken), "scope")
    /\ Has(Stored(last.preToken), "refresh_token")
    /\ last.body["access_token"] # Stored(last.preToken)["access_token"]

\* C4: when the provider rejects the refresh, get_userinfo raises, makes no
\* second refresh attempt, never sends the user-info request and leaves both
\* stores as they were.
C4_RefreshRejected ==
    (last.op = "get_userinfo" /\ last.tokenResp = "rejected") =>
        /\ last.outcome = "raised"
        /\ Count(last.trace, "refresh") = 1
        /\ Count(last.trace, "userinfo") = 0
        /\ tokenFile = last.preToken
        /\ infoFile = last.preInfo

\* a rejected refresh of a stored token, with an info store to lose
C4_Witness ==
    /\ last.op = "get_userinfo"
    /\ last.tokenResp = "rejected"
    /\ last.stale
    /\ last.preInfo.kind = "json"

\* C5: a successful exchange returns the token record received from the
\* provider, the token store then holds every field of that record with the
\* returned value, and from an empty store the stored token equals the
\* returned record.
C5_ExchangePersists ==
    (last.op = "exchange_code" /\ last.tokenResp = "ok") =>
        /\ last.outcome = "returned"
        /\ \A k \in DOMAIN last.body : Has(last.ret, k) /\ last.ret[k] = last.body[k]
        /\ tokenFile.kind = "json"
        /\ \A k \in DOMAIN last.ret :
              Has(tokenFile.data, k) /\ tokenFile.data[k] = last.ret[k]
        /\ last.preToken.kind # "json" => tokenFile.data = last.ret

\* a successful exchange over an empty store whose answer carried expires_in
C5_Witness ==
    /\ last.op = "exchange_code"
    /\ last.tokenResp = "ok"
    /\ last.preToken.kind = "absent"
    /\ Has(last.ret, "expires_at")

\* C6: a failed exchange (rejected, network error, malformed body) raises
\* instead of returning a token and leaves the token store as it was.
C6_ExchangeFails ==
    (last.op = "exchange_code" /\ last.tokenResp \in {"rejected", "neterr", "malformed"}) =>
        /\ last.outcome = "raised"
        /\ last.ret = EmptyMap
        /\ tokenFile = last.preToken

\* a failed exchange while a token is stored
C6_Witness ==
    /\ last.op = "exchange_code"
    /\ last.tokenResp = "malformed"
    /\ last.outcome = "raised"
    /\ last.preToken.kind = "json"

\* C7: revoke_grant returns true, with the token resource gone, exactly when
\* the revocation endpoint answered 200; on another status it returns false
\* and the token store is unchanged; the info store is unchanged either way.
C7_RevokeOn200 ==
    last.op = "revoke_grant" =>
        /\ last.apiResp = "200" =>
              /\ last.outcome = "returned" /\ last.retBool
              /\ tokenFile.kind = "absent"
              /\ ReadFile(tokenFile).none
        /\ last.apiResp = "non200" =>
              /\ last.outcome = "returned" /\ ~last.retBool
              /\ tokenFile = last.preToken
        /\ last.retBool => last.apiResp = "200"
        /\ infoFile = last.preInfo

\* a revocation answered 200 that removed a stored token
C7_Witness ==
    /\ last.op = "revoke_grant"
    /\ last.apiResp = "200"
    /\ last.preToken.kind = "json"
    /\ last.preInfo.kind = "json"

\* a revocation answered with another status
C7_WitnessRefused ==
    /\ last.op = "revoke_grant"
    /\ last.apiResp = "non200"
    /\ tokenFile.kind = "json"

\* C8: on a non-200 answer of the user-info endpoint get_userinfo returns
\* the empty mapping, does not raise, and leaves the info store as it was.
C8_UserinfoNon200 ==
    (last.op = "get_userinfo" /\ last.apiResp = "non200") =>
        /\ last.outcome = "returned"
        /\ last.ret = EmptyMap
        /\ infoFile = last.preInfo

\* a non-200 answer to a dispatched user-info request
C8_Witness ==
    /\ last.op = "get_userinfo"
    /\ last.apiResp = "non200"
    /\ Count(last.trace, "userinfo") = 1

\* C9: on a 200 answer get_userinfo returns the provider's claims and the
\* info store then holds every returned claim with the returned value,
\* merged over what it held before.
C9_UserinfoPersists ==
    (last.op = "get_userinfo" /\ last.apiResp = "200") =>
        /\ last.outcome = "returned"
        /\ last.ret = last.claims
        /\ infoFile.kind = "json"
        /\ \A k \in DOMAIN last.claims :
              Has(infoFile.data, k) /\ infoFile.data[k] = last.claims[k]
        /\ \A k \in (DOMAIN Stored(last.preInfo)) \ (DOMAIN last.claims) :
              Has(infoFile.data, k) /\ infoFile.data[k] = Stored(last.preInfo)[k]
        /\ DOMAIN infoFile.data = (DOMAIN Stored(last.preInfo)) \cup (DOMAIN last.claims)

\* claims that replaced one stored claim and left another one in place
C9_Witness ==
    /\ last.op = "get_userinfo"
    /\ last.apiResp = "200"
    /\ Has(last.claims, "sub")
    /\ Has(Stored(last.preInfo), "sub")
    /\ Stored(last.preInfo)["sub"] # last.claims["sub"]
    /\ Has(Stored(last.preInfo), "email") /\ ~Has(last.claims, "email")

\* C10: get_userinfo with no stored token record (token resource absent or
\* unparsable) raises instead of returning, sends no request to the provider
\* and modifies neither store.
C10_NoToken ==
    (last.op = "get_userinfo" /\ last.preToken.kind # "json") =>
        /\ last.outcome = "raised"
        /\ last.trace = <<>>
        /\ tokenFile = last.preToken
        /\ infoFile = last.preInfo

\* get_userinfo over an unparsable token resource
C10_Witness ==
    /\ last.op = "get_userinfo"
    /\ last.preToken.kind = "corrupt"
    /\ last.outcome = "raised"

\* get_userinfo over an absent token resource, after a revocation
C10_WitnessAbsent ==
    /\ last.op = "get_userinfo"
    /\ last.preToken.kind = "absent"
    /\ last.preInfo.kind = "json"

\* C11: revoke_grant with the token record absent, or present without a
\* refresh_token, raises instead of returning true or false, sends no request
\* to the revocation endpoint and leaves the token store as it was.
C11_RevokeNoToken ==
    (/\ last.op = "revoke_grant"
     /\ (last.preToken.kind # "json" \/ ~Has(last.preToken.data, "refresh_token"))) =>
        /\ last.outcome = "raised"
        /\ last.trace = <<>>
        /\ tokenFile = last.preToken

\* revoke_grant over a stored token that has no refresh_token
C11_Witness ==
    /\ last.op = "revoke_grant"
    /\ last.preToken.kind = "json"
    /\ ~Has(last.preToken.data, "refresh_token")
    /\ last.err = "KeyError"

\* revoke_grant over an absent token resource
C11_WitnessAbsent ==
    /\ last.op = "revoke_grant"
    /\ last.preToken.kind = "absent"
    /\ last.err = "TypeError"

\* C12: read(name) returns absent and does not raise when the resource does
\* not exist or does not hold JSON, and leaves the resource as it was.
C12_ReadFailsOpen ==
    (last.op = "read" /\ last.pre.kind # "json") =>
        /\ last.err = ""
        /\ last.result.none
        /\ File(last.name) = last.pre

\* the deep merge of two mappings, the second taking precedence
DeepMerge(d1, d2) ==
    [k \in (DOMAIN d1) \cup (DOMAIN d2) |->
        IF k \notin DOMAIN d2 THEN d1[k]
        ELSE IF k \notin DOMAIN d1 THEN d2[k]
        ELSE IF ~d1[k].leaf /\ ~d2[k].leaf THEN Nest(Update(d1[k].sub, d2[k].sub))
        ELSE d2[k]]

\* write(name, d1) then write(name, d2) on a resource that was absent
TwoWrites ==
    /\ last.op = "write" /\ last.err = ""
    /\ last.prev.op = "write" /\ last.prev.name = last.name
    /\ last.prev.pre.kind = "absent"

\* C13 as stated: after write(name, d1) and write(name, d2) on an absent
\* resource the stored mapping is the deep merge of d1 and d2, d2 taking
\* precedence.
C13_DeepMergeLaw ==
    TwoWrites =>
        /\ File(last.name).kind = "json"
        /\ File(last.name).data = DeepMerge(last.prev.data, last.data)

\* C13 as amended: after write(name, d1) and write(name, d2) on an absent
\* resource the stored mapping is the shallow merge of d1 and d2: it has the
\* keys of d1 and d2 and no other, a key of d2 has d2's whole value (a value
\* of d1 that is a mapping is replaced, not merged into) and any other key
\* has d1's value.
C13_ShallowMergeLaw ==
    TwoWrites =>
        LET d1 == last.prev.data
            d2 == last.data
            S == File(last.name)
        IN  /\ S.kind = "json"
            /\ DOMAIN S.data = (DOMAIN d1) \cup (DOMAIN d2)
            /\ \A k \in DOMAIN d2 : S.data[k] = d2[k]
            /\ \A k \in (DOMAIN d1) \ (DOMAIN d2) : S.data[k] = d1[k]

\* two writes whose values under one key are different mappings
C13_Witness ==
    /\ TwoWrites
    /\ \E k \in (DOMAIN last.data) \cap (DOMAIN last.prev.data) :
          /\ ~last.data[k].leaf /\ ~last.prev.data[k].leaf
          /\ last.data[k] # last.prev.data[k]
    /\ \E k \in DOMAIN last.prev.data : k \notin DOMAIN last.data

\* C14: delete(name) does not raise and leaves the resource absent, whether
\* or not it existed; on an absent resource, and so as the second of two
\* deletes, it changes nothing.
C14_DeleteIdempotent ==
    last.op = "delete" =>
        /\ last.err = ""
        /\ File(last.name).kind = "absent"
        /\ last.pre.kind = "absent" => File(last.name) = last.pre
        /\ (last.prev.op = "delete" /\ last.prev.name = last.name) =>
              File(last.name) = last.pre

\* a delete of a resource that the delete before it had removed
C14_Witness ==
    /\ last.op = "delete"
    /\ last.prev.op = "delete" /\ last.prev.name = last.name
    /\ last.prev.pre.kind = "json"
    /\ last.pre.kind = "absent"

C15_WitnessEmpty ==
    /\ last.op = "read"
    /\ last.prev.op = "write" /\ last.prev.name = last.name
    /\ last.prev.pre = JsonDump(EmptyMap)
    /\ last.prev.data # EmptyMap

\* C16: across every sequence of commands and provider answers the token
\* resource goes from present to absent only in a revoke_grant step whose
\* revocation request was answered 200.
C16_DeletedOnlyByRevoke ==
    [][(tokenFile.kind # "absent" /\ tokenFile'.kind = "absent") =>
          (last'.op = "revoke_grant" /\ last'.apiResp = "200")]_vars

\* a revocation answered 200 that removed a token obtained by a refresh
C16_Witness ==
    /\ last.op = "revoke_grant"
    /\ last.apiResp = "200"
    /\ last.preToken.kind = "json"
    /\ tokenFile.kind = "absent"
    /\ last.preToken.data["access_token"] > 1

\* whether a command started at time t from the persisted record f would
\* find the token expired
StaleOnDisk(f, t) ==
    /\ f.kind = "json"
    /\ AddToken(SetToken(FreshSession, f.data, t), t) = "TokenExpiredError"

\* C17: after a successful refresh of a stale token the persisted record is
\* valid: an authenticated call made at once from the persisted record does
\* not refresh again, whatever fields the refresh response returned.
C17_RefreshedIsValid ==
    (Refreshed /\ last.stale) =>
        /\ tokenFile.kind = "json"
        /\ ~StaleOnDisk(tokenFile, last.at)

\* the same for the refresh responses that return expires_in
C17_RefreshedWithExpiryIsValid ==
    (Refreshed /\ last.stale /\ Has(last.body, "expires_in")) =>
        /\ tokenFile.kind = "json"
        /\ ~StaleOnDisk(tokenFile, last.at)

\* C18 as stated: once a refresh has failed, no later get_userinfo obtains a
\* refreshed token or a successful result from the stored record until an
\* exchange succeeds.
C18_InvalidIsTerminal ==
    (last.op = "get_userinfo" /\ last.wasFailed) =>
        /\ last.tokenResp # "ok"
        /\ ~(last.outcome = "returned" /\ last.apiResp = "200")

\* the record loaded by the last command had an expiry in the past
LoadedExpired ==
    /\ last.preToken.kind = "json"
    /\ Get(last.preToken.data, "access_token") # 0
    /\ Get(last.preToken.data, "expires_at") # 0
    /\ Get(last.preToken.data, "expires_at") < last.at

\* C18 as amended: a refresh failure leaves the stored record as it was and
\* no Invalid state behind: a later get_userinfo that finds the stored record
\* expired sends one refresh request again, and when the provider answers it
\* with a new token that token is persisted.
C18_FailureIsRetried ==
    /\ (last.op = "get_userinfo" /\ last.tokenResp \in {"rejected", "neterr", "malformed"}) =>
           /\ tokenFile = last.preToken
           /\ last.failed
    /\ (last.op = "get_userinfo" /\ last.wasFailed /\ LoadedExpired) =>
           /\ Count(last.trace, "refresh") = 1
           /\ last.trace[1].ev = "refresh"
           /\ last.tokenResp = "ok" =>
                 tokenFile.data["access_token"] = last.body["access_token"]

\* after a failed refresh and without an exchange in between, a get_userinfo
\* that refreshed the token and returned the claims
C18_Witness ==
    /\ last.op = "get_userinfo"
    /\ last.wasFailed
    /\ last.tokenResp = "ok"
    /\ last.outcome = "returned"
    /\ last.apiResp = "200"

\* positions of the events named e in a trace
Positions(tr, e) == {i \in 1..Len(tr) : tr[i].ev = e}

\* C20: within get_userinfo a successful refresh is persisted before the
\* user-info request is dispatched: the token file holds the refreshed token
\* whatever the user-info outcome, and when the user-info endpoint then
\* answers non-200 the info file is unchanged and the call returns an empty
\* mapping.
C20_RefreshPersistedFirst ==
    Refreshed =>
        /\ Positions(last.trace, "write_token") # {}
        /\ \A i \in Positions(last.trace, "write_token") :
             \A j \in Positions(last.trace, "userinfo") : i < j
        /\ tokenFile.kind = "json"
        /\ \A k \in DOMAIN last.body : Get(tokenFile.data, k) = last.body[k]
        /\ last.apiResp = "non200" =>
              /\ infoFile = last.preInfo
              /\ last.outcome = "returned"
              /\ last.ret = EmptyMap

\* a refresh that succeeded followed by a non-200 user-info answer, with a
\* token file that differs from the one loaded
C20_Witness ==
    /\ Refreshed
    /\ last.apiResp = "non200"
    /\ Positions(last.trace, "userinfo") # {}
    /\ tokenFile # last.preToken

\* the position of a step in the order of steps, 0 when it has not happened
At(p, ev) ==
    IF \E i \in 1..Len(last.order) : last.order[i] = Step(p, ev)
      THEN CHOOSE i \in 1..Len(last.order) : last.order[i] = Step(p, ev)
      ELSE 0

\* both calls have finished writing the same resource, with disjoint keys
BothWrote(p, q) ==
    /\ p # q
    /\ last.procs[p].pc = "done"
    /\ last.procs[q].pc = "done"
    /\ last.procs[p].name = last.procs[q].name
    /\ DOMAIN last.procs[p].data \cap DOMAIN last.procs[q].data = {}

\* both read before either opened the file for writing, and p wrote first
BothReadFirst(p, q) ==
    /\ At(p, "read") < At(p, "open") /\ At(p, "read") < At(q, "open")
    /\ At(q, "read") < At(p, "open") /\ At(q, "read") < At(q, "open")
    /\ At(p, "dump") < At(q, "dump")

\* C19: the read-merge-write of the store is not atomic: when two processes
\* write disjoint keys to the same resource and both read before either
\* writes, the update of the one that wrote first is lost: each of its keys
\* is missing from the stored mapping, or has the value it had before both
\* calls. When the second reads after the first has finished, no key is lost.
C19_LostUpdate ==
    \A p, q \in Procs :
        LET name == last.procs[p].name
            before == Stored(last.initial[name])
            after == Stored(File(name))
        IN  /\ (BothWrote(p, q) /\ BothReadFirst(p, q)) =>
                  \A k \in DOMAIN last.procs[p].data :
                      IF k \in DOMAIN before
                        THEN k \in DOMAIN after => after[k] = before[k]
                        ELSE k \notin DOMAIN after
            /\ (BothWrote(p, q) /\ At(p, "dump") < At(q, "read")) =>
                  after = Update(Update(before, last.procs[p].data), last.procs[q].data)

\* both processes wrote a key of their own to the same resource, both read
\* before either wrote, and the resource holds a mapping without the key of
\* the one that wrote first
C19_Witness ==
    \E p, q \in Procs :
        /\ BothWrote(p, q)
        /\ BothReadFirst(p, q)
        /\ last.procs[p].data # EmptyMap
        /\ last.procs[q].data # EmptyMap
        /\ File(last.procs[p].name).kind = "json"
        /\ \E k \in DOMAIN last.procs[p].data :
              k \notin DOMAIN File(last.procs[p].name).data
        /\ \A k \in DOMAIN last.procs[q].data :
              k \in DOMAIN File(last.procs[p].name).data

====
